---- MODULE Spec2Model ----
(***************************************************************************)
(* A model of calc_plans.py: the rate conditions, rate tiers and price     *)
(* plans (RateCondition, PlanRate, PricePlan), the four configured plans   *)
(* (D1, D1.2, D1.9, D1.8) and the main program that groups, sorts,         *)
(* accumulates and annotates the readings of a CSV file.                   *)
(*                                                                         *)
(* Decimal values are pairs (coef, exp) standing for coef * 10^exp, as in  *)
(* Python's decimal module.  Timestamps are wall-clock records in the one  *)
(* fixed zone America/Detroit; they are ordered field by field, which is   *)
(* the order of their instants on every day without a clock change.        *)
(***************************************************************************)
EXTENDS Integers, Sequences, FiniteSets, TLC

VARIABLES
    input,      \* the rows of the CSV file sys.argv[1], in file order
    data,       \* the nested dict data[acct][meter], as groups in iteration order
    pc,         \* where the main program is
    nread,      \* number of input rows the DictReader loop has consumed
    g,          \* index of the (acct, meter) group being processed
    idx,        \* index of the row being processed in that group
    p,          \* index of the plan the annotation loop is at
    ts,         \* the accumulator's current date
    day_tally,  \* the accumulator's running total
    stdout,     \* lines printed to standard output
    stderr,     \* lines printed to standard error
    outfile,    \* the rows written back to sys.argv[1] (<<>> until written)
    plan,       \* the price plan under evaluation   (SpecEval, SpecTariff)
    row,        \* the row under evaluation          (SpecEval, SpecTariff)
    call,       \* the method that was called on it  (SpecEval, SpecTariff)
    ret         \* what the call returned            (SpecEval, SpecTariff)

vars == <<input, data, pc, nread, g, idx, p, ts, day_tally, stdout, stderr,
          outfile, plan, row, call, ret>>

engineVars == <<input, data, pc, nread, g, idx, p, ts, day_tally, outfile>>

-----------------------------------------------------------------------------
(* Bounds of the model.                                                    *)

\* first year of the calendar the evaluation specifications range over
BaseYear == 2020
\* number of consecutive years in that calendar
NumYears == 2
\* longest CSV file the main program is run on
MaxRows == 3
\* longest tier list of an arbitrary tariff
MaxTiers == 2

-----------------------------------------------------------------------------
(* decimal.Decimal                                                         *)

RECURSIVE Pow10(_)
Pow10(n) == IF n = 0 THEN 1 ELSE 10 * Pow10(n - 1)

Decimal(c, e) == [coef |-> c, exp |-> e]

MinExp(a, b) == IF a.exp <= b.exp THEN a.exp ELSE b.exp

\* the coefficient of a at the (smaller or equal) exponent e
Scaled(a, e) == a.coef * Pow10(a.exp - e)

DecAdd(a, b) == Decimal(Scaled(a, MinExp(a, b)) + Scaled(b, MinExp(a, b)), MinExp(a, b))

DecMul(a, b) == Decimal(a.coef * b.coef, a.exp + b.exp)

\* a / b for a divisor whose coefficient is a power of ten (Decimal('100.0')):
\* the quotient is exact, so no rounding takes place
DecDiv(a, b) ==
    LET k == CHOOSE n \in 0..9 : Pow10(n) = b.coef
    IN  Decimal(a.coef, a.exp - b.exp - k)

DecEq(a, b) == Scaled(a, MinExp(a, b)) = Scaled(b, MinExp(a, b))
DecLe(a, b) == Scaled(a, MinExp(a, b)) <= Scaled(b, MinExp(a, b))
DecGt(a, b) == Scaled(a, MinExp(a, b)) > Scaled(b, MinExp(a, b))

-----------------------------------------------------------------------------
(* arrow.Arrow: the operations the conditions use                          *)

IsLeap(y) == (y % 4 = 0) /\ ((y % 100 # 0) \/ (y % 400 = 0))

DaysInMonth(y, m) ==
    IF m = 2 THEN (IF IsLeap(y) THEN 29 ELSE 28)
    ELSE IF m \in {4, 6, 9, 11} THEN 30 ELSE 31

RECURSIVE DaysBeforeMonth(_, _)
DaysBeforeMonth(y, m) ==
    IF m = 1 THEN 0 ELSE DaysBeforeMonth(y, m - 1) + DaysInMonth(y, m - 1)

DaysBeforeYear(y) ==
    (y - 1) * 365 + ((y - 1) \div 4) - ((y - 1) \div 100) + ((y - 1) \div 400)

ToOrdinal(y, m, d) == DaysBeforeYear(y) + DaysBeforeMonth(y, m) + d

\* Arrow.weekday(): Monday is 0, Sunday is 6
Weekday(t) == (ToOrdinal(t.year, t.month, t.day) + 6) % 7

\* Arrow.date()
DateOf(t) == <<t.year, t.month, t.day>>

\* the order of two timestamps' instants, field by field
TsLt(a, b) ==
    IF a.year # b.year THEN a.year < b.year
    ELSE IF a.month # b.month THEN a.month < b.month
    ELSE IF a.day # b.day THEN a.day < b.day
    ELSE IF a.hour # b.hour THEN a.hour < b.hour
    ELSE IF a.minute # b.minute THEN a.minute < b.minute
    ELSE IF a.second # b.second THEN a.second < b.second
    ELSE a.microsecond < b.microsecond

TsLe(a, b) == ~TsLt(b, a)

\* Arrow.replace(hour=h): every other field is kept
ReplaceHour(t, h) == [t EXCEPT !.hour = h]

\* Arrow.replace(month=m, day=d): the year and the time of day are kept
ReplaceMonthDay(t, m, d) == [t EXCEPT !.month = m, !.day = d]

\* Arrow.shift(years=+n), applied to dates that exist in every year
ShiftYears(t, n) == [t EXCEPT !.year = t.year + n]

\* Arrow.floor('day')
FloorDay(t) == [t EXCEPT !.hour = 0, !.minute = 0, !.second = 0, !.microsecond = 0]

\* Arrow.ceil('day'): the last microsecond of the day
CeilDay(t) == [t EXCEPT !.hour = 23, !.minute = 59, !.second = 59, !.microsecond = 999999]

\* Arrow.ceil('hour'): the last microsecond of the hour
CeilHour(t) == [t EXCEPT !.minute = 59, !.second = 59, !.microsecond = 999999]

\* Arrow.is_between(start, end, bounds='[]')
IsBetween(t, start, end) == TsLe(start, t) /\ TsLe(t, end)

-----------------------------------------------------------------------------
(* The match lambdas of the configured conditions, by shape.  A condition  *)
(* is [key, condition, kind, args]; args are the numbers in its lambda.    *)

\* lambda row: row['Daily Cumulative'] <= k      (and > k)
CumLe(r, k) == DecLe(r["Daily Cumulative"], Decimal(k, 0))
CumGt(r, k) == DecGt(r["Daily Cumulative"], Decimal(k, 0))

\* lambda row: row['Timestamp'].floor('day').is_between(
\*     row['Timestamp'].clone().replace(month=m1, day=d1),
\*     row['Timestamp'].clone().replace(month=m2, day=d2)[.shift(years=+yrs)].ceil('day'),
\*     bounds='[]')
DayBetween(t, m1, d1, m2, d2, yrs) ==
    IsBetween(FloorDay(t), ReplaceMonthDay(t, m1, d1),
              CeilDay(ShiftYears(ReplaceMonthDay(t, m2, d2), yrs)))

\* an hour window tested with is_between's default bounds, '()'
HourBetweenExclusive(t, h1, h2) ==
    TsLt(ReplaceHour(t, h1), t) /\ TsLt(t, CeilHour(ReplaceHour(t, h2)))

\* row['Timestamp'].is_between(
\*     row['Timestamp'].clone().replace(hour=h1),
\*     row['Timestamp'].clone().replace(hour=h2).ceil('hour'), bounds='[]')
HourBetween(t, h1, h2) == IsBetween(t, ReplaceHour(t, h1), CeilHour(ReplaceHour(t, h2)))

\* lambda row: lo <= row['Timestamp'].weekday() <= hi
WeekdayBetween(t, lo, hi) == lo <= Weekday(t) /\ Weekday(t) <= hi

\* RateCondition.match(row)
Match(c, r) ==
    CASE c.kind = "cum_le" -> CumLe(r, c.args[1])
      [] c.kind = "cum_gt" -> CumGt(r, c.args[1])
      [] c.kind = "day" ->
            DayBetween(r["Timestamp"], c.args[1], c.args[2], c.args[3], c.args[4], c.args[5])
      [] c.kind = "hour" -> HourBetween(r["Timestamp"], c.args[1], c.args[2])
      [] c.kind = "hour2" ->
            \/ HourBetween(r["Timestamp"], c.args[1], c.args[2])
            \/ HourBetween(r["Timestamp"], c.args[3], c.args[4])
      [] c.kind = "weekday" -> WeekdayBetween(r["Timestamp"], c.args[1], c.args[2])

RateCondition(k, c, kind, args) == [key |-> k, condition |-> c, kind |-> kind, args |-> args]

PlanRate(n, d, c, nc, conds) ==
    [name |-> n, distribution |-> d, capacity |-> c, non_capacity |-> nc, conditions |-> conds]

PricePlan(n, sc, rates) == [name |-> n, service_charge |-> sc, rates |-> rates]

-----------------------------------------------------------------------------
(* The configured plans (the list plans of __main__).                      *)

SummerDays == RateCondition("Timestamp", "06/01 <= day <= 10/31", "day", <<6, 1, 10, 31, 0>>)
WinterDays == RateCondition("Timestamp", "11/01 <= day <= 5/31", "day", <<11, 1, 5, 31, 1>>)
OffPeakHours ==
    RateCondition("Timestamp", "19:00:00 <= hour <= 10:59:59", "hour2", <<19, 23, 0, 10>>)
OnPeakHours == RateCondition("Timestamp", "11:00:00 <= hour <= 18:59:59", "hour", <<11, 18>>)
Weekdays == RateCondition("Timestamp", "Monday <= day <= Friday", "weekday", <<0, 4>>)
Weekend == RateCondition("Timestamp", "Saturday <= day <= Sunday", "weekday", <<5, 6>>)

D1 ==
    PricePlan("D1", Decimal(750, -2), <<
        PlanRate("First 17kWh", Decimal(6611, -3), Decimal(4500, -3), Decimal(4176, -3),
            << RateCondition("Daily Cumulative", "<=17", "cum_le", <<17>>) >>),
        PlanRate("After 17kWh", Decimal(6611, -3), Decimal(6484, -3), Decimal(4176, -3),
            << RateCondition("Daily Cumulative", ">17", "cum_gt", <<17>>) >>) >>)

D1_2 ==
    PricePlan("D1.2", Decimal(750, -2), <<
        PlanRate("Time-of-Day Summer Off-Peak",
            Decimal(6611, -3), Decimal(1160, -3), Decimal(4261, -3),
            << SummerDays, OffPeakHours >>),
        PlanRate("Time-of-Day Summer On-Peak",
            Decimal(6611, -3), Decimal(11841, -3), Decimal(4261, -3),
            << SummerDays, OnPeakHours >>),
        PlanRate("Time-of-Day Winter Off-Peak",
            Decimal(6611, -3), Decimal(948, -3), Decimal(4261, -3),
            << WinterDays, OffPeakHours >>),
        PlanRate("Time-of-Day Winter On-Peak",
            Decimal(6611, -3), Decimal(9341, -3), Decimal(4261, -3),
            << WinterDays, OnPeakHours >>) >>)

D1_9 ==
    PricePlan("D1.9", Decimal(750, -2), <<
        PlanRate("Dynamic Mid-Peak", Decimal(6611, -3), Decimal(5645, -3), Decimal(3576, -3),
            << Weekdays,
               RateCondition("Timestamp",
                   "19:00:00 <= hour <= 22:59:59 or 07:00:00 <= hour <= 14:59:59",
                   "hour2", <<19, 22, 7, 14>>) >>),
        PlanRate("Dynamic On-Peak", Decimal(6611, -3), Decimal(13025, -3), Decimal(3576, -3),
            << Weekdays,
               RateCondition("Timestamp", "15:00:00 <= hour <= 18:59:59", "hour", <<15, 18>>) >>),
        PlanRate("Dynamic Off-Peak Weekday",
            Decimal(6611, -3), Decimal(1218, -3), Decimal(3576, -3),
            << Weekdays,
               RateCondition("Timestamp", "23:00:00 <= hour <= 06:59:59",
                   "hour2", <<23, 23, 0, 6>>) >>),
        PlanRate("Dynamic Off-Peak Weekend",
            Decimal(6611, -3), Decimal(1218, -3), Decimal(3576, -3),
            << Weekend >>) >>)

D1_8 ==
    PricePlan("D1.8", Decimal(195, -2), <<
        PlanRate("EV On-Peak", Decimal(6611, -3), Decimal(9791, -3), Decimal(19720, -3),
            << Weekdays,
               RateCondition("Timestamp", "09:00:00 <= hour <= 22:59:59", "hour", <<9, 22>>) >>),
        PlanRate("EV Off-Peak Weekday", Decimal(6611, -3), Decimal(2448, -3), Decimal(7889, -3),
            << Weekdays,
               RateCondition("Timestamp", "23:00:00 <= hour <= 08:59:59",
                   "hour2", <<23, 23, 0, 8>>) >>),
        PlanRate("EV Off-Peak Weekend", Decimal(6611, -3), Decimal(2448, -3), Decimal(7889, -3),
            << Weekend >>) >>)

plans == << D1, D1_2, D1_9, D1_8 >>

-----------------------------------------------------------------------------
(* The methods.  A method that prints returns, beside its value (ret),     *)
(* the lines it wrote to standard output (out) and standard error (err).   *)

\* the value a method returns for Python's None
None == [name |-> "None"]

\* RateCondition.is_rate(row, debug)
RateCondition_is_rate(c, r, debug) ==
    LET val == Match(c, r)
    IN  [ret |-> val,
         out |-> IF debug /\ ~val
                 THEN << [key |-> c.key, condition |-> c.condition] >>
                 ELSE << >>]

\* PlanRate.is_rate(row, debug): the loop over self.conditions from index i on
RECURSIVE is_rate_from(_, _, _, _)
is_rate_from(conds, i, r, debug) ==
    IF i > Len(conds) THEN [ret |-> TRUE, out |-> << >>]
    ELSE LET c == RateCondition_is_rate(conds[i], r, debug)
         IN  IF ~c.ret THEN [ret |-> FALSE, out |-> c.out]
             ELSE is_rate_from(conds, i + 1, r, debug)

\* PlanRate.is_rate(row, debug)
PlanRate_is_rate(rate, r, debug) == is_rate_from(rate.conditions, 1, r, debug)

\* a tier cost that leaves the non-capacity charge out
PlanRate_cost_NoNonCapacity(rate, r) ==
    IF ~PlanRate_is_rate(rate, r, FALSE).ret THEN Decimal(0, -1)
    ELSE DecDiv(DecMul(r["Hourly Total"], DecAdd(rate.distribution, rate.capacity)),
                Decimal(1000, -1))

\* PlanRate.cost(row)
PlanRate_cost(rate, r) ==
    IF ~PlanRate_is_rate(rate, r, FALSE).ret THEN Decimal(0, -1)
    ELSE DecDiv(DecMul(r["Hourly Total"],
                       DecAdd(DecAdd(rate.distribution, rate.capacity), rate.non_capacity)),
                Decimal(1000, -1))

\* the lines the second loop of match_rate prints: every tier, debug=True
RECURSIVE debug_lines(_, _, _)
debug_lines(rates, i, r) ==
    IF i > Len(rates) THEN << >>
    ELSE PlanRate_is_rate(rates[i], r, TRUE).out \o debug_lines(rates, i + 1, r)

\* a first loop of match_rate that keeps looking after a tier matched, and so
\* returns the last matching tier
RECURSIVE match_rate_last(_, _, _)
match_rate_last(rates, i, r) ==
    IF i > Len(rates) THEN None
    ELSE LET later == match_rate_last(rates, i + 1, r)
         IN  IF later # None THEN later
             ELSE IF PlanRate_is_rate(rates[i], r, FALSE).ret THEN rates[i] ELSE None

\* the first loop of match_rate, from index i on: the first tier whose is_rate
\* is true, None when the loop falls through
RECURSIVE match_rate_from(_, _, _)
match_rate_from(rates, i, r) ==
    IF i > Len(rates) THEN None
    ELSE IF PlanRate_is_rate(rates[i], r, FALSE).ret THEN rates[i]
    ELSE match_rate_from(rates, i + 1, r)

\* PricePlan.match_rate(row)
PricePlan_match_rate(pl, r) ==
    LET m == match_rate_from(pl.rates, 1, r)
    IN  IF m # None
        THEN [ret |-> m, out |-> << >>, err |-> << >>]
        ELSE [ret |-> None,
              out |-> debug_lines(pl.rates, 1, r),
              err |-> << [plan |-> pl.name, row |-> r] >>]

\* PricePlan.cost(row)
PricePlan_cost(pl, r) ==
    LET m == PricePlan_match_rate(pl, r)
    IN  [ret |-> IF m.ret = None THEN Decimal(0, -1) ELSE PlanRate_cost(m.ret, r),
         out |-> m.out, err |-> m.err]

-----------------------------------------------------------------------------
(* SpecEval: the configured plans evaluated on every reading of a calendar *)
(* of NumYears years.                                                      *)

Years == BaseYear..(BaseYear + NumYears - 1)

\* the minutes of an 'h:mm A' hour label the evaluation ranges over
Minutes == {0, 30}

EvalTimestamps ==
    {[year |-> y, month |-> m, day |-> d, hour |-> h, minute |-> mi,
      second |-> 0, microsecond |-> 0] :
        y \in Years, m \in 1..12, d \in 1..31, h \in 0..23, mi \in Minutes}

\* daily cumulative usages on both sides of the 17 kWh threshold
EvalCumulatives == {Decimal(17, 0), Decimal(170001, -4)}

EvalRow(t, c) ==
    [Timestamp |-> t] @@ ("Hourly Total" :> Decimal(25, -1)) @@ ("Daily Cumulative" :> c)

EngineIdle ==
    /\ input = << >> /\ data = << >> /\ pc = "idle" /\ nread = 0
    /\ g = 0 /\ idx = 0 /\ p = 0 /\ ts = << >> /\ day_tally = Decimal(0, -1)
    /\ outfile = << >>

InitEval ==
    /\ EngineIdle
    /\ stdout = << >> /\ stderr = << >>
    /\ plan = None /\ call = "none" /\ ret = << >>
    /\ \E t \in EvalTimestamps, c \in EvalCumulatives :
          /\ t.day <= DaysInMonth(t.year, t.month)
          /\ row = EvalRow(t, c)

\* plan i of the configured plans resolves the reading: plans[i].match_rate(row)
Evaluate(i) ==
    /\ call = "none"
    /\ plan' = plans[i]
    /\ call' = "match_rate"
    /\ ret' = PricePlan_match_rate(plans[i], row)
    /\ stdout' = ret'.out
    /\ stderr' = ret'.err
    /\ UNCHANGED <<engineVars, row>>

NextEval == \E i \in 1..Len(plans) : Evaluate(i)

SpecEval == InitEval /\ [][NextEval]_vars

-----------------------------------------------------------------------------
(* SpecTariff: arbitrary tariffs, any ordered list of up to MaxTiers of    *)
(* the configured tiers, and their tiers, called on sample readings.       *)

RateSet(pl) == {pl.rates[j] : j \in 1..Len(pl.rates)}

TierPool == UNION {RateSet(plans[i]) : i \in 1..Len(plans)}

TierLists == UNION {[1..n -> TierPool] : n \in 1..MaxTiers}

Timestamp(y, m, d, h, mi) ==
    [year |-> y, month |-> m, day |-> d, hour |-> h, minute |-> mi,
     second |-> 0, microsecond |-> 0]

\* a summer weekday afternoon, a summer Saturday evening, a Monday noon in
\* March and a December midnight
SampleTimestamps ==
    {Timestamp(2021, 7, 1, 13, 0), Timestamp(2021, 7, 3, 20, 0),
     Timestamp(2021, 3, 1, 12, 0), Timestamp(2021, 12, 15, 0, 0)}

\* <<Hourly Total, Daily Cumulative>>: 2.5 reaching 17, and 1 reaching 17.0001
SampleUsages ==
    {<<Decimal(25, -1), Decimal(17, 0)>>, <<Decimal(1, 0), Decimal(170001, -4)>>}

InitTariff ==
    /\ EngineIdle
    /\ stdout = << >> /\ stderr = << >>
    /\ call = "none" /\ ret = << >>
    /\ \E tiers \in TierLists : plan = PricePlan("T", Decimal(750, -2), tiers)
    /\ \E t \in SampleTimestamps, u \in SampleUsages :
          row = [Timestamp |-> t] @@ ("Hourly Total" :> u[1]) @@ ("Daily Cumulative" :> u[2])

\* plan.match_rate(row)
CallMatchRate ==
    /\ call = "none"
    /\ call' = "match_rate"
    /\ ret' = PricePlan_match_rate(plan, row)
    /\ stdout' = ret'.out
    /\ stderr' = ret'.err
    /\ UNCHANGED <<engineVars, plan, row>>

\* plan.cost(row)
CallCost ==
    /\ call = "none"
    /\ call' = "cost"
    /\ ret' = PricePlan_cost(plan, row)
    /\ stdout' = ret'.out
    /\ stderr' = ret'.err
    /\ UNCHANGED <<engineVars, plan, row>>

\* plan.rates[j].cost(row)
CallRateCost(j) ==
    /\ call = "none"
    /\ call' = "rate_cost"
    /\ ret' = [ret |-> PlanRate_cost(plan.rates[j], row), tier |-> j]
    /\ UNCHANGED <<engineVars, plan, row, stdout, stderr>>

NextTariff ==
    \/ CallMatchRate
    \/ CallCost
    \/ \E j \in 1..Len(plan.rates) : CallRateCost(j)

SpecTariff == InitTariff /\ [][NextTariff]_vars

-----------------------------------------------------------------------------
(* The main program.  A row is a dict: a function from field names to      *)
(* values, which the program extends as it goes.                           *)

\* row[k] = v
SetItem(r, k, v) == (k :> v) @@ r

\* a row as the DictReader yields it
RawRow(acct, meter, day, hod, total) ==
    ("Account Number" :> acct) @@ ("Meter Number" :> meter) @@ ("Day" :> day)
        @@ ("Hour of Day" :> hod) @@ ("Hourly Total" :> total)

\* a 'MM/DD/YYYY' date and an 'h:mm A' hour label
Day(mm, dd, yyyy) == [MM |-> mm, DD |-> dd, YYYY |-> yyyy]
HourOfDay(h, mm, a) == [h |-> h, mm |-> mm, A |-> a]

\* arrow.get(r['Day'] + ' ' + r['Hour of Day'], 'MM/DD/YYYY h:mm A', tzinfo=...)
ParseTimestamp(day, hod) ==
    Timestamp(day.YYYY, day.MM, day.DD,
              IF hod.A = "AM" THEN (IF hod.h = 12 THEN 0 ELSE hod.h)
              ELSE (IF hod.h = 12 THEN 12 ELSE hod.h + 12),
              hod.mm)

\* the rows a CSV file may hold: readings of meter M1 of account A1 on Jul 1
\* (two of them for the same hour), on Jul 2 and on Mar 1 2021, one of its
\* meter M2 and one of account A2
RawPool ==
    {RawRow("A1", "M1", Day(7, 1, 2021), HourOfDay(1, 0, "AM"), Decimal(10, 0)),
     RawRow("A1", "M1", Day(7, 1, 2021), HourOfDay(2, 0, "PM"), Decimal(5, 0)),
     RawRow("A1", "M1", Day(7, 2, 2021), HourOfDay(12, 0, "AM"), Decimal(3, 0)),
     RawRow("A1", "M1", Day(7, 1, 2021), HourOfDay(1, 0, "AM"), Decimal(5, 0)),
     RawRow("A1", "M2", Day(7, 1, 2021), HourOfDay(1, 0, "AM"), Decimal(10, 0)),
     RawRow("A2", "M1", Day(7, 1, 2021), HourOfDay(2, 0, "PM"), Decimal(25, -1)),
     RawRow("A1", "M1", Day(3, 1, 2021), HourOfDay(12, 0, "PM"), Decimal(25, -1))}

Inputs == UNION {[1..n -> RawPool] : n \in 0..MaxRows}

Last(S) == CHOOSE i \in S : \A j \in S : j <= i

\* data[acct][meter].append(r), creating data[acct] and data[acct][meter] when
\* absent: a new meter comes after the account's other meters, a new account
\* after every other account
AddRow(d, r) ==
    LET acct == r["Account Number"]
        meter == r["Meter Number"]
        same == {i \in 1..Len(d) : d[i].acct = acct /\ d[i].meter = meter}
        ofAcct == {i \in 1..Len(d) : d[i].acct = acct}
        new == [acct |-> acct, meter |-> meter, rows |-> <<r>>]
    IN  IF same # {}
        THEN [d EXCEPT ![Last(same)].rows = Append(@, r)]
        ELSE IF ofAcct # {}
        THEN SubSeq(d, 1, Last(ofAcct)) \o <<new>> \o SubSeq(d, Last(ofAcct) + 1, Len(d))
        ELSE Append(d, new)

\* x put into the sorted s after every row whose timestamp is not later
RECURSIVE InsertSorted(_, _)
InsertSorted(s, x) ==
    IF s = << >> THEN <<x>>
    ELSE IF TsLt(x["Timestamp"], Head(s)["Timestamp"]) THEN <<x>> \o s
    ELSE <<Head(s)>> \o InsertSorted(Tail(s), x)

RECURSIVE SortFrom(_, _, _)
SortFrom(rows, i, acc) ==
    IF i > Len(rows) THEN acc ELSE SortFrom(rows, i + 1, InsertSorted(acc, rows[i]))

\* a group left in the order it was read
Unsorted(rows) == rows

\* sorted(rows, key=lambda d: d['Timestamp']): stable
SortByTimestamp(rows) == SortFrom(rows, 1, << >>)

\* date a > date b
DateGt(a, b) ==
    IF a[1] # b[1] THEN a[1] > b[1]
    ELSE IF a[2] # b[2] THEN a[2] > b[2]
    ELSE a[3] > b[3]

\* a tally that is carried over midnight
TallyBefore_NoReset(r, date, tally) == tally

\* the running total the row's usage is added to: zero on a later date
TallyBefore(r, date, tally) ==
    IF DateGt(DateOf(r["Timestamp"]), date) THEN Decimal(0, -1) ELSE tally

\* the accumulator's date after the row
DateAfter(r, date) ==
    IF DateGt(DateOf(r["Timestamp"]), date) THEN DateOf(r["Timestamp"]) ELSE date

\* lines 443-444 on a row whose Rate is set: plan.cost(row), c, sets its Cost
WithCost(pl, r1, c) ==
    [row |-> SetItem(r1, pl.name \o " Cost", c.ret), out |-> c.out, err |-> c.err,
     raised |-> FALSE]

\* lines 441-444 given what plan.match_rate(row), m, returned and printed:
\* .name of None raises AttributeError, and nothing more is done
WithMatch(pl, r, m) ==
    IF m.ret = None
    THEN [row |-> r, out |-> m.out, err |-> m.err, raised |-> TRUE]
    ELSE WithCost(pl, SetItem(r, pl.name \o " Rate", m.ret.name),
                  PricePlan_cost(pl, SetItem(r, pl.name \o " Rate", m.ret.name)))

\* one iteration of the loop over plans on a row: the row with the plan's Rate
\* and Cost set, what was printed, and whether an exception was raised
AnnotateRow(pl, r) == WithMatch(pl, r, PricePlan_match_rate(pl, r))

Init ==
    /\ input \in Inputs
    /\ data = << >>
    /\ pc = IF input = << >> THEN "group" ELSE "read"
    /\ nread = 0 /\ g = 1 /\ idx = 0 /\ p = 0
    /\ ts = << >> /\ day_tally = Decimal(0, -1)
    /\ stdout = << >> /\ stderr = << >> /\ outfile = << >>
    /\ plan = None /\ row = << >> /\ call = "none" /\ ret = << >>

\* one iteration of the DictReader loop
ReadRow ==
    /\ pc = "read"
    /\ LET r == input[nread + 1]
       IN  data' = AddRow(data, SetItem(r, "Timestamp", ParseTimestamp(r["Day"], r["Hour of Day"])))
    /\ nread' = nread + 1
    /\ pc' = IF nread' = Len(input) THEN "group" ELSE "read"
    /\ UNCHANGED <<input, g, idx, p, ts, day_tally, stdout, stderr, outfile,
                   plan, row, call, ret>>

\* the head of the loop over groups: the group is sorted and the accumulator
\* starts at the date of its first row
SortGroup ==
    /\ pc = "group"
    /\ g <= Len(data)
    /\ data' = [data EXCEPT ![g].rows = SortByTimestamp(@)]
    /\ ts' = DateOf(data'[g].rows[1]["Timestamp"])
    /\ day_tally' = Decimal(0, -1)
    /\ idx' = 1
    /\ pc' = "accumulate"
    /\ UNCHANGED <<input, nread, g, p, stdout, stderr, outfile, plan, row, call, ret>>

\* the daily accumulator on row idx
Accumulate ==
    /\ pc = "accumulate"
    /\ LET r == data[g].rows[idx]
           cum == DecAdd(TallyBefore(r, ts, day_tally), r["Hourly Total"])
       IN  /\ ts' = DateAfter(r, ts)
           /\ data' = [data EXCEPT ![g].rows[idx] = SetItem(r, "Daily Cumulative", cum)]
           /\ day_tally' = cum
    /\ p' = 1
    /\ pc' = "annotate"
    /\ UNCHANGED <<input, nread, g, idx, stdout, stderr, outfile, plan, row, call, ret>>

\* a loop over rows that goes from the last plan of one row straight to the
\* first plan of the next, the accumulator left out of it
Annotated_NoAccumulate(a) ==
    /\ stdout' = stdout \o a.out
    /\ stderr' = stderr \o a.err
    /\ data' = [data EXCEPT ![g].rows[idx] = a.row]
    /\ IF a.raised
       THEN pc' = "crashed" /\ UNCHANGED <<p, idx, g>>
       ELSE IF p < Len(plans)
       THEN pc' = "annotate" /\ p' = p + 1 /\ UNCHANGED <<idx, g>>
       ELSE IF idx < Len(data[g].rows)
       THEN pc' = "annotate" /\ p' = 1 /\ idx' = idx + 1 /\ UNCHANGED g
       ELSE pc' = "group" /\ g' = g + 1 /\ UNCHANGED <<p, idx>>

\* the state after one iteration of the loop over plans that had result a
Annotated(a) ==
    /\ stdout' = stdout \o a.out
    /\ stderr' = stderr \o a.err
    /\ data' = [data EXCEPT ![g].rows[idx] = a.row]
    /\ IF a.raised
       THEN pc' = "crashed" /\ UNCHANGED <<p, idx, g>>
       ELSE IF p < Len(plans)
       THEN pc' = "annotate" /\ p' = p + 1 /\ UNCHANGED <<idx, g>>
       ELSE IF idx < Len(data[g].rows)
       THEN pc' = "accumulate" /\ idx' = idx + 1 /\ UNCHANGED <<p, g>>
       ELSE pc' = "group" /\ g' = g + 1 /\ UNCHANGED <<p, idx>>

\* one iteration of the loop over plans on row idx; after the last plan the
\* loops over rows and groups move on
AnnotatePlan ==
    /\ pc = "annotate"
    /\ Annotated(AnnotateRow(plans[p], data[g].rows[idx]))
    /\ UNCHANGED <<input, nread, ts, day_tally, outfile, plan, row, call, ret>>

RECURSIVE AllRows(_, _)
AllRows(d, i) == IF i > Len(d) THEN << >> ELSE d[i].rows \o AllRows(d, i + 1)

\* the file is written back, group by group
WriteOutput ==
    /\ pc = "group"
    /\ g > Len(data)
    /\ outfile' = AllRows(data, 1)
    /\ pc' = "done"
    /\ UNCHANGED <<input, data, nread, g, idx, p, ts, day_tally, stdout, stderr,
                   plan, row, call, ret>>

Next == ReadRow \/ SortGroup \/ Accumulate \/ AnnotatePlan \/ WriteOutput

Spec == Init /\ [][Next]_vars

-----------------------------------------------------------------------------
(* The main program as a function of its input file: the same loops, run   *)
(* to the end.                                                             *)

\* the DictReader loop from row i on
RECURSIVE LoadFrom(_, _, _)
LoadFrom(in, i, d) ==
    IF i > Len(in) THEN d
    ELSE LoadFrom(in, i + 1,
             AddRow(d, SetItem(in[i], "Timestamp",
                               ParseTimestamp(in[i]["Day"], in[i]["Hour of Day"]))))

\* the loop over plans on one row, from plan i on, given the result so far
RECURSIVE AnnotateFrom(_, _)
AnnotateFrom(i, a) ==
    IF a.raised \/ i > Len(plans) THEN a
    ELSE AnnotateFrom(i + 1, AnnotateRow(plans[i], a.row))

\* the row with its Daily Cumulative set
Accumulated(r, date, tally) ==
    SetItem(r, "Daily Cumulative", DecAdd(TallyBefore(r, date, tally), r["Hourly Total"]))

\* the loop over the rows of a sorted group, from row i on, given the annotated
\* rows so far
RECURSIVE RowsFrom(_, _, _, _, _)
RowsFrom(rows, i, date, tally, acc) ==
    IF i > Len(rows) THEN [rows |-> acc, raised |-> FALSE]
    ELSE LET a == AnnotateFrom(1, [row |-> Accumulated(rows[i], date, tally),
                                   raised |-> FALSE])
         IN  IF a.raised THEN [rows |-> acc, raised |-> TRUE]
             ELSE RowsFrom(rows, i + 1, DateAfter(rows[i], date),
                           a.row["Daily Cumulative"], Append(acc, a.row))

\* the loop over groups from group i on, given the rows of the groups so far
RECURSIVE GroupsFrom(_, _, _)
GroupsFrom(d, i, acc) ==
    IF i > Len(d) THEN [status |-> "done", outfile |-> acc]
    ELSE LET sorted == SortByTimestamp(d[i].rows)
             done == RowsFrom(sorted, 1, DateOf(sorted[1]["Timestamp"]), Decimal(0, -1), << >>)
         IN  IF done.raised THEN [status |-> "crashed", outfile |-> << >>]
             ELSE GroupsFrom(d, i + 1, acc \o done.rows)

\* how a run on the file ends, and what it writes back to the file
Run(in) == GroupsFrom(LoadFrom(in, 1, << >>), 1, << >>)

-----------------------------------------------------------------------------
(* Properties of the configured plans (SpecEval).                          *)

\* the tiers of a plan whose is_rate is true for a row
Matching(pl, r) == {j \in 1..Len(pl.rates) : PlanRate_is_rate(pl.rates[j], r, FALSE).ret}

\* a configured plan has resolved the reading in row
Evaluated(name) == call = "match_rate" /\ plan.name = name

\* C2: for each of the four configured plans and every reading (any date, hour,
\* weekday and non-negative daily cumulative usage) exactly one tier's is_rate
\* is true, so match_rate never returns None.
C2_Exhaustive ==
    call = "match_rate" =>
        /\ Cardinality(Matching(plan, row)) = 1
        /\ ret.ret # None

\* the date lies in [Nov 1 of year Y, May 31 of year Y+1] for some year Y
InNovToMay(t) == t.month >= 11 \/ t.month <= 5

\* C3: the configured 'Nov 1 - May 31' calendar condition (of both winter tiers
\* of D1.2) is true for a reading exactly when its date lies in [Nov 1 of year
\* Y, May 31 of year Y+1] for some Y, at every hour of the day.
C3_WinterWindow ==
    Evaluated("D1.2") =>
        \A j \in {3, 4} :
            RateCondition_is_rate(plan.rates[j].conditions[1], row, FALSE).ret
                <=> InNovToMay(row.Timestamp)

\* the date of t is the first or the last day of the day range of condition c
OnBoundaryDay(c, t) ==
    \/ t.month = c.args[1] /\ t.day = c.args[2]
    \/ t.month = c.args[3] /\ t.day = c.args[4]

\* C4: for every configured calendar-day range (Jun 1 - Oct 31, Nov 1 - May 31)
\* a reading dated the first or the last day of the range satisfies the
\* range's condition, whatever its hour of day.
C4_InclusiveBoundaries ==
    Evaluated("D1.2") =>
        \A j \in 1..Len(plan.rates) :
            OnBoundaryDay(plan.rates[j].conditions[1], row.Timestamp) =>
                RateCondition_is_rate(plan.rates[j].conditions[1], row, FALSE).ret

\* C5: the configured '19:00 - 10:59' hour condition (of both off-peak tiers of
\* D1.2) is true for a reading exactly when its hour of day is in 19..23 or in
\* 0..10, on every calendar date.
C5_MidnightWindow ==
    Evaluated("D1.2") =>
        \A j \in {1, 3} :
            RateCondition_is_rate(plan.rates[j].conditions[2], row, FALSE).ret
                <=> row.Timestamp.hour \in (19..23) \cup (0..10)

\* a reading in the last half hour of the window, 10:30, resolved by D1.2 to
\* an off-peak tier
C5_Witness ==
    /\ Evaluated("D1.2")
    /\ row.Timestamp.hour = 10 /\ row.Timestamp.minute = 30
    /\ ret.ret # None
    /\ ret.ret.name = "Time-of-Day Summer Off-Peak"

-----------------------------------------------------------------------------
(* Properties of arbitrary tariffs (SpecTariff).                           *)

\* the first matching tier of the plan, in declaration order
FirstMatching(pl, r) == CHOOSE j \in Matching(pl, r) : \A k \in Matching(pl, r) : j <= k

\* C6: match_rate returns the tier with the smallest declaration index among
\* the tiers whose is_rate is true for the reading, even when a later tier
\* matches too, and returns None if and only if no tier's is_rate is true.
C6_FirstMatch ==
    call = "match_rate" =>
        /\ (ret.ret = None) <=> (Matching(plan, row) = {})
        /\ Matching(plan, row) # {} => ret.ret = plan.rates[FirstMatching(plan, row)]

\* two different tiers both match, and match_rate returned the first
C6_Witness ==
    /\ call = "match_rate"
    /\ Matching(plan, row) = {1, 2}
    /\ plan.rates[1].name # plan.rates[2].name
    /\ ret.ret = plan.rates[1]

\* the three charges of a tier, summed, in thousandths of a cent per kWh
ChargeSum(rate) ==
    Scaled(rate.distribution, -3) + Scaled(rate.capacity, -3) + Scaled(rate.non_capacity, -3)

\* cost is exactly usage x (the tier's charges) / 100: both sides as integers,
\* in units of 10^(e - 5) dollars where 10^e is the unit of the usage
IsExactCost(cost, rate, r) ==
    /\ cost.exp >= r["Hourly Total"].exp - 5
    /\ Scaled(cost, r["Hourly Total"].exp - 5) = r["Hourly Total"].coef * ChargeSum(rate)

\* C9: PlanRate.cost is exactly 0 when the tier's is_rate is false and
\* otherwise exactly hourly usage x (distribution + capacity + non_capacity)
\* / 100 with no rounding (2.5 at 6.611 + 4.500 + 4.176 gives 0.382175);
\* PricePlan.cost is exactly 0 when no tier matches and otherwise the cost of
\* the tier match_rate returns.
C9_CostFormula ==
    /\ call = "rate_cost" =>
          LET rate == plan.rates[ret.tier]
          IN  /\ ret.tier \notin Matching(plan, row) => ret.ret.coef = 0
              /\ ret.tier \in Matching(plan, row) => IsExactCost(ret.ret, rate, row)
              /\ ( /\ ret.tier \in Matching(plan, row)
                   /\ rate.name = "First 17kWh"
                   /\ row["Hourly Total"] = Decimal(25, -1) )
                    => DecEq(ret.ret, Decimal(382175, -6))
    /\ call = "cost" =>
          /\ Matching(plan, row) = {} => ret.ret.coef = 0
          /\ Matching(plan, row) # {} =>
                IsExactCost(ret.ret, plan.rates[FirstMatching(plan, row)], row)

\* the tier 'First 17kWh' costed a reading of 2.5 kWh that it matches
C9_Witness ==
    /\ call = "rate_cost"
    /\ plan.rates[ret.tier].name = "First 17kWh"
    /\ ret.tier \in Matching(plan, row)
    /\ row["Hourly Total"] = Decimal(25, -1)
    /\ ret.ret = Decimal(382175, -6)

\* the conditions of the plan that are false on the row, as <<tier, condition>>
FailingConditions(pl, r) ==
    {jk \in (1..Len(pl.rates)) \X (1..2) :
        /\ jk[2] <= Len(pl.rates[jk[1]].conditions)
        /\ ~Match(pl.rates[jk[1]].conditions[jk[2]], r)}

\* C10: when match_rate finds no tier it emits exactly one diagnostic line
\* naming the tariff and the reading, then one line per condition of any tier
\* that is false on the reading, all on the diagnostic stream, and returns
\* None; when some tier matches it emits no line.
C10_Diagnostics ==
    call = "match_rate" =>
        IF Matching(plan, row) = {}
        THEN /\ ret.ret = None
             /\ stdout = << >>
             /\ Len(stderr) = 1 + Cardinality(FailingConditions(plan, row))
             /\ stderr[1] = [plan |-> plan.name, row |-> row]
        ELSE stdout = << >> /\ stderr = << >>

-----------------------------------------------------------------------------
(* Properties of the main program (Spec).                                  *)

\* the run is over
Ended == pc \in {"done", "crashed"}

\* the state machine and the function Run agree on how every run ends
RunAgrees == Ended => Run(input) = [status |-> pc, outfile |-> outfile]

\* the annotation loop has been through plan pi on row i of group gi
Resolved(gi, i, pi) ==
    \/ gi < g
    \/ /\ gi = g
       /\ pc \in {"accumulate", "annotate", "crashed"}
       /\ (i < idx \/ (i = idx /\ pc = "annotate" /\ pi < p))

\* C1: when no tier of a plan matches a reading the engine does not abort:
\* the reading's '<tariff> Cost' is exactly zero and the engine goes on with
\* the remaining tariffs and readings.
C1_NoMatchContinues ==
    /\ pc # "crashed"
    /\ \A gi \in 1..Len(data) : \A i \in 1..Len(data[gi].rows) : \A pi \in 1..Len(plans) :
          ( /\ pc # "read"
            /\ Resolved(gi, i, pi)
            /\ Matching(plans[pi], data[gi].rows[i]) = {} )
              => data[gi].rows[i][plans[pi].name \o " Cost"].coef = 0

RECURSIVE IsSorted(_)
IsSorted(rows) ==
    Len(rows) <= 1 \/ ( /\ TsLe(rows[1]["Timestamp"], rows[2]["Timestamp"])
                        /\ IsSorted(Tail(rows)) )

\* the sum of Hourly Total over rows[j], j <= i, dated as rows[i]
RECURSIVE SameDaySum(_, _, _)
SameDaySum(rows, i, j) ==
    IF j = 0 THEN Decimal(0, 0)
    ELSE IF DateOf(rows[j]["Timestamp"]) = DateOf(rows[i]["Timestamp"])
    THEN DecAdd(rows[j]["Hourly Total"], SameDaySum(rows, i, j - 1))
    ELSE SameDaySum(rows, i, j - 1)

\* C7: after the engine has processed a group, the group is in timestamp order
\* and every reading's 'Daily Cumulative' equals the sum of 'Hourly Total' over
\* the readings of the group of the same date at or before it: the total is
\* carried neither from one day nor from one group to the next.
C7_DailyReset ==
    pc # "read" =>
        \A gi \in 1..Len(data) :
            gi < g =>
                /\ IsSorted(data[gi].rows)
                /\ \A i \in 1..Len(data[gi].rows) :
                      DecEq(data[gi].rows[i]["Daily Cumulative"],
                            SameDaySum(data[gi].rows, i, i))

\* readings (day 1, 10), (day 1, 5), (day 2, 3) came out as 10, 15, 3
C7_Witness ==
    /\ pc = "done"
    /\ Len(outfile) = 3
    /\ \A i \in 1..3 : outfile[i]["Hourly Total"] = <<Decimal(10, 0), Decimal(5, 0), Decimal(3, 0)>>[i]
    /\ \A i \in 1..3 : DecEq(outfile[i]["Daily Cumulative"],
                             <<Decimal(10, 0), Decimal(15, 0), Decimal(3, 0)>>[i])
    /\ DateOf(outfile[1]["Timestamp"]) = DateOf(outfile[2]["Timestamp"])
    /\ DateOf(outfile[2]["Timestamp"]) # DateOf(outfile[3]["Timestamp"])

\* the orderings of a file of n rows
Orderings(n) == {f \in [1..n -> 1..n] : \A i, j \in 1..n : f[i] = f[j] => i = j}

Permuted(in, f) == [i \in 1..Len(in) |-> in[f[i]]]

Count(rows, r) == Cardinality({i \in 1..Len(rows) : rows[i] = r})

\* the same rows, each as many times: equal once both are sorted by any key
SameRows(a, b) ==
    /\ Len(a) = Len(b)
    /\ \A i \in 1..Len(a) : Count(a, a[i]) = Count(b, a[i])

\* a run that ended as o did ends as this run did and writes the same rows
SameResult(o) == o.status = pc /\ SameRows(o.outfile, outfile)

\* every run on a reordering of the input file ends as this run did and
\* writes the same rows
OrderIndependent ==
    \A f \in Orderings(Len(input)) : SameResult(Run(Permuted(input, f)))

\* C8 as claimed: for any collection of readings and any permutation of it the
\* engine yields the same output rows (same daily cumulative value, tier name
\* and cost for each reading) once both outputs are sorted by account, meter
\* and timestamp.
C8_AnyOrder == Ended => OrderIndependent

\* readings of one (account, meter) group that share a timestamp are identical
TiesIdentical(in) ==
    \A i, j \in 1..Len(in) :
        ( /\ in[i]["Account Number"] = in[j]["Account Number"]
          /\ in[i]["Meter Number"] = in[j]["Meter Number"]
          /\ ParseTimestamp(in[i]["Day"], in[i]["Hour of Day"])
                = ParseTimestamp(in[j]["Day"], in[j]["Hour of Day"]) )
            => in[i] = in[j]

\* C8 as amended: the same, for collections in which no two different readings
\* of one (account, meter) group have the same timestamp.
C8_OrderOfDistinct == (Ended /\ TiesIdentical(input)) => OrderIndependent

\* a file of three readings of one meter, read latest first, was processed to
\* the end
C8_Witness ==
    /\ pc = "done"
    /\ TiesIdentical(input)
    /\ Len(input) = 3 /\ Len(data) = 1
    /\ TsLt(outfile[1]["Timestamp"], outfile[2]["Timestamp"])
    /\ TsLt(outfile[2]["Timestamp"], outfile[3]["Timestamp"])
    /\ input[1]["Day"] = outfile[3]["Day"] /\ input[1]["Hour of Day"] = outfile[3]["Hour of Day"]

\* the row's 'Daily Cumulative' has been assigned
HasCumulative(r) == "Daily Cumulative" \in DOMAIN r

\* tier resolution has run on the row for some plan: a Rate or a Cost is set
HasResolution(r) ==
    \E i \in 1..Len(plans) :
        \/ (plans[i].name \o " Rate") \in DOMAIN r
        \/ (plans[i].name \o " Cost") \in DOMAIN r

\* control is in the loop over plans on row i of group gi, at or after a call of
\* match_rate on it
Resolving(gi, i) == pc \in {"annotate", "crashed"} /\ gi = g /\ i = idx

\* C11: in every execution, tier resolution (match_rate / cost of any plan) on
\* a reading runs only once the reading's 'Daily Cumulative' is assigned, and
\* that is assigned only once the cumulative values of all earlier readings of
\* the same meter's sorted sequence are.
C11_SequentialDependency ==
    pc # "read" =>
        \A gi \in 1..Len(data) : \A i \in 1..Len(data[gi].rows) :
            /\ (Resolving(gi, i) \/ HasResolution(data[gi].rows[i]))
                  => HasCumulative(data[gi].rows[i])
            /\ HasCumulative(data[gi].rows[i])
                  => \A j \in 1..(i - 1) : HasCumulative(data[gi].rows[j])

\* the second of three readings of a meter is being resolved: the first two
\* have their cumulative values, the third has none yet
C11_Witness ==
    /\ pc = "annotate" /\ idx = 2 /\ p > 1
    /\ Len(data[g].rows) = 3
    /\ HasResolution(data[g].rows[2])
    /\ HasCumulative(data[g].rows[1]) /\ HasCumulative(data[g].rows[2])
    /\ ~HasCumulative(data[g].rows[3])

====
